---- MODULE Spec2Model ----
(***************************************************************************)
(* Categorical DQN (C51) agent of 06.categorical_dqn.ipynb:                *)
(*   - ReplayBuffer (store / sample_batch / __len__)                       *)
(*   - DQNAgent.train loop (select_action, step, update_model, epsilon     *)
(*     schedule, target hard update)                                       *)
(*   - the categorical projection of DQNAgent._compute_dqn_loss            *)
(*                                                                         *)
(* Real numbers are kept as exact integers on fixed grids:                 *)
(*   - values (v_min, v_max, support, reward, t_z) in units of 1/GammaDen  *)
(*   - probabilities in units of 1/PDen                                    *)
(*   - epsilons in units of 1/(EpsDen*DecayDen)                            *)
(* On these grids the float32 operations of the source are exact for the   *)
(* configurations enumerated below (integer atoms, delta_z a small         *)
(* integer), so the integer arithmetic is the arithmetic of the code.      *)
(***************************************************************************)
EXTENDS Integers, Sequences, FiniteSets, TLC

\* ---------------------------------------------------------------- bounds
MaxMem == 2          \* capacity of a ReplayBuffer on its own is 1..MaxMem
MaxBatch == 2        \* batch_size ranges over 1..MaxBatch
MaxStores == 4       \* ReplayBuffer.store calls explored on one buffer
MaxFrames == 5       \* num_frames of train() is 0, 1 or MaxFrames
MaxTargetUpdate == 2 \* target_update ranges over 1..MaxTargetUpdate
EpsDen == 2          \* max_epsilon, min_epsilon lie on the grid k/EpsDen
DecayDen == 2        \* epsilon_decay lies on the grid k/DecayDen
GammaDen == 2        \* gamma lies on the grid k/GammaDen
PDen == 2            \* probabilities lie on the grid k/PDen
MaxCalls == 2        \* test() / update_model() calls made by the caller
MaxTestSteps == 2    \* time limit of an episode played by test()

VARIABLES
    \* ReplayBuffer
    obs_buf, next_obs_buf, acts_buf, rews_buf, done_buf,
    max_size, batch_size, ptr, size,
    \* result of the last sample_batch / __len__, exception raised
    idxs, samples, len_ret, raised,
    \* history: every transition handed to store, and the last buffer call
    stored, n_store, op,
    \* DQNAgent
    epsilon, epsilon_decay, max_epsilon, min_epsilon, target_update,
    dqn, dqn_target, transition, is_test,
    \* DQNAgent.train: position in the loop and local variables
    pc, num_frames, frame_idx, state, action, next_state, reward, done,
    update_cnt,
    \* history of the run: hard updates done, optimizer steps, epsilon
    \* decays, online parameters at the last load_state_dict, env.close calls
    sync_log, grad_cnt, decay_cnt, synced_params, env_closed,
    \* categorical DQN parameters of the agent
    v_min, v_max, atom_size, gamma,
    \* _compute_dqn_loss: reward and done of the batch rows, the target
    \* network's distribution of the greedy next action, the projection
    batch_reward, batch_done, next_dist, proj_dist,
    \* the environment: the observation it returned last, whether its episode
    \* is over (a reset is due), the number of env.step calls
    env_obs, env_done, env_steps,
    \* calls of test() and update_model() made by the caller
    n_calls

bufVars == <<obs_buf, next_obs_buf, acts_buf, rews_buf, done_buf, ptr, size>>
bufCfg == <<max_size, batch_size>>
sampleVars == <<idxs, samples>>

Min(a, b) == IF a < b THEN a ELSE b
Max(a, b) == IF a > b THEN a ELSE b

\* observations (0 is the zero vector), actions, rewards of the environment
\* (CartPole pays 1.0 on every step)
Obs == {0, 1}
Actions == {0, 1}
Rewards == {1}
\* transitions handed to a ReplayBuffer used on its own
BufInputs == {<<0, 0, 1, 1, FALSE>>, <<1, 1, 1, 0, TRUE>>, <<1, 0, 0, 0, FALSE>>}

\* numpy stores a Python bool into a float32 array as 1.0 / 0.0
Float32OfBool(d) == IF d THEN 1 ELSE 0

\* ---------------------------------------------------------- ReplayBuffer
Slots == 0..(max_size - 1)

\* ReplayBuffer.__init__: zero arrays, ptr = size = 0
ReplayBufferInit(sz, bs) ==
    /\ max_size = sz
    /\ batch_size = bs
    /\ obs_buf = [i \in 0..(sz - 1) |-> 0]
    /\ next_obs_buf = [i \in 0..(sz - 1) |-> 0]
    /\ acts_buf = [i \in 0..(sz - 1) |-> 0]
    /\ rews_buf = [i \in 0..(sz - 1) |-> 0]
    /\ done_buf = [i \in 0..(sz - 1) |-> 0]
    /\ ptr = 0
    /\ size = 0
    /\ idxs = <<>>
    /\ samples = <<>>
    /\ len_ret = 0
    /\ raised = "none"
    /\ stored = <<>>
    /\ n_store = 0
    /\ op = "init"

\* the five fields held by slot i
Slot(i) == <<obs_buf[i], acts_buf[i], rews_buf[i], next_obs_buf[i], done_buf[i]>>

NextPtrNoWrap(p) == p + 1
NextPtrStuck(p) == IF p + 1 < max_size THEN p + 1 ELSE p
\* self.ptr = (self.ptr + 1) % self.max_size
NextPtr(p) == (p + 1) % max_size

NextSizeUnbounded(s) == s + 1
\* self.size = min(self.size + 1, self.max_size)
NextSize(s) == Min(s + 1, max_size)

\* ReplayBuffer.store(obs, act, rew, next_obs, done)
store(obs, act, rew, next_obs, d) ==
    /\ obs_buf' = [obs_buf EXCEPT ![ptr] = obs]
    /\ next_obs_buf' = [next_obs_buf EXCEPT ![ptr] = next_obs]
    /\ acts_buf' = [acts_buf EXCEPT ![ptr] = act]
    /\ rews_buf' = [rews_buf EXCEPT ![ptr] = rew]
    /\ done_buf' = [done_buf EXCEPT ![ptr] = Float32OfBool(d)]
    /\ ptr' = NextPtr(ptr)
    /\ size' = NextSize(size)
    /\ n_store' = n_store + 1
    /\ op' = "store"

\* k pairwise distinct draws of 0..n-1, in the order drawn
ChoiceWithReplacement(n, k) == [1..k -> 0..(n - 1)]
\* np.random.choice(n, size=k, replace=False)
Choice(n, k) ==
    {s \in [1..k -> 0..(n - 1)] : \A i, j \in 1..k : i # j => s[i] # s[j]}

\* obs_buf[idxs] etc.: fancy indexing keeps the order of idxs
Take(buf, ix) == [k \in DOMAIN ix |-> buf[ix[k]]]

sample_batch_clipped ==
    /\ op' = "sample_batch"
    /\ \E ix \in Choice(size, Min(size, batch_size)) :
         /\ idxs' = ix
         /\ samples' = [obs |-> Take(obs_buf, ix),
                        next_obs |-> Take(next_obs_buf, ix),
                        acts |-> Take(acts_buf, ix),
                        rews |-> Take(rews_buf, ix),
                        done |-> Take(done_buf, ix)]
         /\ raised' = "none"
\* ReplayBuffer.sample_batch(); np.random.choice raises ValueError when the
\* population is smaller than the sample
sample_batch ==
    /\ op' = "sample_batch"
    /\ IF size >= batch_size
       THEN \E ix \in Choice(size, batch_size) :
              /\ idxs' = ix
              /\ samples' = [obs |-> Take(obs_buf, ix),
                             next_obs |-> Take(next_obs_buf, ix),
                             acts |-> Take(acts_buf, ix),
                             rews |-> Take(rews_buf, ix),
                             done |-> Take(done_buf, ix)]
              /\ raised' = "none"
       ELSE /\ raised' = "ValueError"
            /\ UNCHANGED sampleVars

\* ReplayBuffer.__len__()
len ==
    /\ len_ret' = size
    /\ op' = "len"

\* ------------------------------------------------------------- DQNAgent
agentCfg == <<epsilon_decay, max_epsilon, min_epsilon, target_update>>
netVars == <<dqn, dqn_target>>
trainLocals == <<num_frames, frame_idx, state, action, next_state, reward, done,
                 update_cnt>>
histVars == <<sync_log, grad_cnt, decay_cnt, synced_params, env_closed>>
projVars == <<v_min, v_max, atom_size, gamma, batch_reward, batch_done,
              next_dist, proj_dist>>
envVars == <<env_obs, env_done, env_steps>>

\* one unit of epsilon is 1/(EpsDen*DecayDen); EpsOne is epsilon = 1.0
EpsOne == EpsDen * DecayDen

\* Network.forward(state).argmax(): the greedy action of a parameter vector
Greedy(params, obs) == (params + obs) % Cardinality(Actions)

\* Module.load_state_dict(src.state_dict()): a copy of every parameter
LoadStateDict(dst, src) == src

\* DQNAgent.__init__ (after ReplayBuffer(obs_dim, memory_size, batch_size))
DQNAgentInitNoBatch(tu, decay, maxe, mine) ==
    /\ epsilon = maxe
    /\ epsilon_decay = decay
    /\ max_epsilon = maxe
    /\ min_epsilon = mine
    /\ target_update = tu
    /\ dqn = 0
    /\ dqn_target = LoadStateDict(0, dqn)
    /\ transition = <<>>
    /\ is_test = FALSE
    /\ pc = "idle"
    /\ num_frames = 0
    /\ frame_idx = 0
    /\ state = 0
    /\ action = 0
    /\ next_state = 0
    /\ reward = 0
    /\ done = FALSE
    /\ update_cnt = 0
    /\ sync_log = <<>>
    /\ grad_cnt = 0
    /\ decay_cnt = 0
    /\ synced_params = dqn
    /\ env_closed = 0
    /\ env_obs = 0
    /\ env_done = TRUE
    /\ env_steps = 0
    /\ n_calls = 0

\* no batch is being processed
DQNAgentInit(tu, decay, maxe, mine) ==
    /\ DQNAgentInitNoBatch(tu, decay, maxe, mine)
    /\ batch_reward = <<>>
    /\ batch_done = <<>>
    /\ next_dist = <<>>
    /\ proj_dist = <<>>

\* DQNAgent.__init__: gamma and the categorical DQN parameters
CategoricalInit(vmin, vmax, atoms, g) ==
    /\ v_min = vmin
    /\ v_max = vmax
    /\ atom_size = atoms
    /\ gamma = g

\* self.env.reset(): a new episode, its first observation
env_reset ==
    /\ \E o \in Obs : env_obs' = o
    /\ env_done' = FALSE
    /\ env_steps' = env_steps

\* self.env.step(action): the next observation, the reward, whether the
\* episode is over
env_step(a) ==
    /\ \E o \in Obs : env_obs' = o
    /\ \E r \in Rewards : reward' = r
    /\ \E d \in BOOLEAN : env_done' = d
    /\ env_steps' = env_steps + 1

\* train(num_frames), lines up to the for statement
TrainBegin ==
    /\ pc = "idle"
    /\ \E n \in {0, 1, MaxFrames} : num_frames' = n
    /\ is_test' = FALSE
    /\ env_reset
    /\ state' = env_obs'
    /\ update_cnt' = 0
    /\ frame_idx' = 1
    /\ pc' = IF num_frames' >= 1 THEN "select" ELSE "close"
    /\ UNCHANGED <<bufVars, bufCfg, sampleVars, len_ret, raised, stored, n_store,
                   op, epsilon, agentCfg, netVars, transition, action,
                   next_state, reward, done, histVars, projVars, n_calls>>

\* select_action(state): epsilon-greedy; np.random.random() lies in [0, 1);
\* the action returned is action'
select_action(s) ==
    /\ \E rnd \in 0..(EpsOne - 1) :
         IF epsilon > rnd
         THEN \E a \in Actions : action' = a
         ELSE action' = Greedy(dqn, s)
    /\ transition' = IF ~is_test THEN <<s, action'>> ELSE transition

\* train: action = self.select_action(state)
SelectAction ==
    /\ pc = "select"
    /\ select_action(state)
    /\ pc' = "step"
    /\ UNCHANGED <<bufVars, bufCfg, sampleVars, len_ret, raised, stored, n_store,
                   op, epsilon, agentCfg, netVars, is_test, num_frames,
                   frame_idx, state, next_state, reward, done, update_cnt,
                   histVars, projVars, envVars, n_calls>>

step_storing_always(a) ==
    /\ env_step(a)
    /\ next_state' = env_obs'
    /\ done' = env_done'
    /\ transition' = <<state, a, reward', next_state', done'>>
    /\ store(state, a, reward', next_state', done')
\* step(action): env.step, and in train mode the transition is completed
\* and stored; the values returned are next_state', reward', done'
step(a) ==
    /\ env_step(a)
    /\ next_state' = env_obs'
    /\ done' = env_done'
    /\ IF ~is_test
       THEN /\ transition' = transition \o <<reward', next_state', done'>>
            /\ store(transition'[1], transition'[2], transition'[3],
                     transition'[4], transition'[5])
       ELSE UNCHANGED <<transition, bufVars, n_store, op>>

\* train: next_state, reward, done = self.step(action)
Step ==
    /\ pc = "step"
    /\ step(action)
    /\ pc' = "episode"
    /\ UNCHANGED <<bufCfg, sampleVars, len_ret, raised, stored, epsilon, agentCfg,
                   netVars, is_test, num_frames, frame_idx, state, action,
                   update_cnt, histVars, projVars, n_calls>>

ReadyOneEarly(n) == n >= batch_size - 1
\* len(self.memory) >= self.batch_size
Ready(n) == n >= batch_size

\* train: state = next_state; if done: state = env.reset(); then the test
\* whether training is ready
EpisodeEndNoReset ==
    /\ pc = "episode"
    /\ state' = next_state
    /\ len
    /\ pc' = IF Ready(len_ret') THEN "update" ELSE "plot"
    /\ UNCHANGED <<bufVars, bufCfg, sampleVars, raised, stored, n_store,
                   epsilon, agentCfg, netVars, transition, is_test, num_frames,
                   frame_idx, action, next_state, reward, done, update_cnt,
                   histVars, projVars, envVars, n_calls>>
EpisodeEnd ==
    /\ pc = "episode"
    /\ IF done
       THEN /\ env_reset
            /\ state' = env_obs'
       ELSE /\ state' = next_state
            /\ UNCHANGED envVars
    /\ len
    /\ pc' = IF Ready(len_ret') THEN "update" ELSE "plot"
    /\ UNCHANGED <<bufVars, bufCfg, sampleVars, raised, stored, n_store,
                   epsilon, agentCfg, netVars, transition, is_test, num_frames,
                   frame_idx, action, next_state, reward, done, update_cnt,
                   histVars, projVars, n_calls>>

\* update_model, first line: samples = self.memory.sample_batch(); an
\* exception of sample_batch leaves update_model and train
UpdateModelSample ==
    /\ pc = "update"
    /\ sample_batch
    /\ pc' = IF raised' = "none" THEN "loss" ELSE "raised"
    /\ UNCHANGED <<bufVars, bufCfg, len_ret, stored, n_store, epsilon, agentCfg,
                   netVars, transition, is_test, trainLocals, histVars, projVars,
                   envVars, n_calls>>

OptimizerStepShared(w) == <<w + 1, w + 1>>
\* optimizer.step() on self.dqn.parameters(): the online network gets a new
\* parameter vector (vectors are numbered in the order they are produced),
\* the target network is not among the optimizer's parameters
OptimizerStep(w) == <<w + 1, dqn_target>>

\* update_model, rest: loss, optimizer.step(); then train: update_cnt += 1
UpdateModelStep ==
    /\ pc = "loss"
    /\ dqn' = OptimizerStep(dqn)[1]
    /\ dqn_target' = OptimizerStep(dqn)[2]
    /\ grad_cnt' = grad_cnt + 1
    /\ update_cnt' = update_cnt + 1
    /\ idxs' = <<>>
    /\ samples' = <<>>
    /\ pc' = "decay"
    /\ UNCHANGED <<bufVars, bufCfg, len_ret, raised, stored, n_store, op, epsilon,
                   agentCfg, transition, is_test, num_frames,
                   frame_idx, state, action, next_state, reward, done,
                   sync_log, decay_cnt, synced_params, env_closed, projVars,
                   envVars, n_calls>>

DecayedEpsilonNoFloor(e) ==
    e - ((max_epsilon - min_epsilon) * epsilon_decay) \div DecayDen
\* max(min_epsilon, epsilon - (max_epsilon - min_epsilon) * epsilon_decay)
DecayedEpsilon(e) ==
    Max(min_epsilon,
        e - ((max_epsilon - min_epsilon) * epsilon_decay) \div DecayDen)

SyncDueByFrame(cnt) == frame_idx % target_update = 0
\* update_cnt % self.target_update == 0
SyncDue(cnt) == cnt % target_update = 0

\* train: linearly decrease epsilon, then the test for the hard update
DecayEpsilon ==
    /\ pc = "decay"
    /\ epsilon' = DecayedEpsilon(epsilon)
    /\ decay_cnt' = decay_cnt + 1
    /\ pc' = IF SyncDue(update_cnt) THEN "sync" ELSE "plot"
    /\ UNCHANGED <<bufVars, bufCfg, sampleVars, len_ret, raised, stored, n_store,
                   op, agentCfg, netVars, transition, is_test, trainLocals,
                   sync_log, grad_cnt, synced_params, env_closed, projVars,
                   envVars, n_calls>>

\* _target_hard_update()
TargetHardUpdate ==
    /\ pc = "sync"
    /\ dqn_target' = LoadStateDict(dqn_target, dqn)
    /\ synced_params' = dqn
    /\ sync_log' = Append(sync_log, [cnt |-> update_cnt, grads |-> grad_cnt,
                                     decays |-> decay_cnt])
    /\ pc' = "plot"
    /\ UNCHANGED <<bufVars, bufCfg, sampleVars, len_ret, raised, stored, n_store,
                   op, epsilon, agentCfg, dqn, transition, is_test, trainLocals,
                   grad_cnt, decay_cnt, env_closed, projVars, envVars, n_calls>>

NextFrameOneMore ==
    /\ pc = "plot"
    /\ frame_idx' = frame_idx + 1
    /\ pc' = IF frame_idx <= num_frames THEN "select" ELSE "close"
    /\ UNCHANGED <<bufVars, bufCfg, sampleVars, len_ret, raised, stored, n_store,
                   op, epsilon, agentCfg, netVars, transition, is_test,
                   num_frames, state, action, next_state, reward, done,
                   update_cnt, histVars, projVars, envVars, n_calls>>
\* train: end of the loop body, next frame_idx of range(1, num_frames + 1)
NextFrame ==
    /\ pc = "plot"
    /\ frame_idx' = frame_idx + 1
    /\ pc' = IF frame_idx < num_frames THEN "select" ELSE "close"
    /\ UNCHANGED <<bufVars, bufCfg, sampleVars, len_ret, raised, stored, n_store,
                   op, epsilon, agentCfg, netVars, transition, is_test,
                   num_frames, state, action, next_state, reward, done,
                   update_cnt, histVars, projVars, envVars, n_calls>>

\* train: self.env.close()
Close ==
    /\ pc = "close"
    /\ env_closed' = env_closed + 1
    /\ pc' = "done"
    /\ UNCHANGED <<bufVars, bufCfg, sampleVars, len_ret, raised, stored, n_store,
                   op, epsilon, agentCfg, netVars, transition, is_test,
                   trainLocals, sync_log, grad_cnt, decay_cnt, synced_params,
                   projVars, envVars, n_calls>>

vars == <<obs_buf, next_obs_buf, acts_buf, rews_buf, done_buf, max_size,
          batch_size, ptr, size, idxs, samples, len_ret, raised, stored,
          n_store, op, epsilon, epsilon_decay, max_epsilon, min_epsilon,
          target_update, dqn, dqn_target, transition, is_test, pc, num_frames,
          frame_idx, state, action, next_state, reward, done, update_cnt,
          sync_log, grad_cnt, decay_cnt, synced_params, env_closed,
          v_min, v_max, atom_size, gamma, batch_reward, batch_done,
          next_dist, proj_dist, env_obs, env_done, env_steps, n_calls>>

\* (max_epsilon, min_epsilon, epsilon_decay) of the agents explored, the
\* epsilons as multiples of 1/EpsDen, the decay as a multiple of 1/DecayDen:
\* the defaults' shape (1.0 down to a floor), a floor of 0, no range, no
\* decay, and a floor above max_epsilon
EpsConfigs ==
    {<<EpsDen, 1, 1>>, <<EpsDen, 0, DecayDen - 1>>, <<EpsDen, EpsDen, DecayDen>>,
     <<EpsDen, 0, 0>>, <<1, EpsDen, 1>>}

\* memory_size of the agents trained: below, at and above their batch_size
TrainMemorySizes == {1, 2}

\* the agent as constructed: DQNAgent(env, memory_size, batch_size,
\* target_update, epsilon_decay, max_epsilon, min_epsilon)
Init ==
    /\ \E sz \in TrainMemorySizes, bs \in 1..MaxBatch : ReplayBufferInit(sz, bs)
    /\ \E tu \in 1..MaxTargetUpdate, e \in EpsConfigs :
         DQNAgentInit(tu, e[3], e[1] * DecayDen, e[2] * DecayDen)
    /\ CategoricalInit(0, 200, 51, GammaDen)

Next ==
    \/ TrainBegin
    \/ SelectAction
    \/ Step
    \/ EpisodeEnd
    \/ UpdateModelSample
    \/ UpdateModelStep
    \/ DecayEpsilon
    \/ TargetHardUpdate
    \/ NextFrame
    \/ Close

Spec == Init /\ [][Next]_vars

\* train() is one sequential thread: a statement that is reached is run, and
\* every call into the environment returns
FairSpec == Spec /\ WF_vars(Next)

\* ----------------------------------- the methods as the caller uses them

\* test(), lines up to the while statement; the caller calls it before or
\* after train()
TestBegin ==
    /\ pc \in {"idle", "done"}
    /\ n_calls < MaxCalls
    /\ n_calls' = n_calls + 1
    /\ is_test' = TRUE
    /\ env_reset
    /\ state' = env_obs'
    /\ done' = FALSE
    /\ pc' = "test_select"
    /\ UNCHANGED <<bufVars, bufCfg, sampleVars, len_ret, raised, stored, n_store,
                   op, epsilon, agentCfg, netVars, transition, num_frames,
                   frame_idx, action, next_state, reward, update_cnt, histVars,
                   projVars>>

\* test: env.render, action = self.select_action(state)
TestSelectAction ==
    /\ pc = "test_select"
    /\ select_action(state)
    /\ pc' = "test_step"
    /\ UNCHANGED <<bufVars, bufCfg, sampleVars, len_ret, raised, stored, n_store,
                   op, epsilon, agentCfg, netVars, is_test, num_frames,
                   frame_idx, state, next_state, reward, done, update_cnt,
                   histVars, projVars, envVars, n_calls>>

\* test: next_state, reward, done = self.step(action); state = next_state;
\* the while test. The environment ends an episode at its time limit: the
\* steps taken in test mode are env_steps - n_store
TestStep ==
    /\ pc = "test_step"
    /\ step(action)
    /\ (env_steps' - n_store' >= MaxTestSteps) => env_done'
    /\ state' = next_state'
    /\ pc' = IF done' THEN "test_close" ELSE "test_select"
    /\ UNCHANGED <<bufCfg, sampleVars, len_ret, raised, stored, epsilon, agentCfg,
                   netVars, is_test, num_frames, frame_idx, action, update_cnt,
                   histVars, projVars, n_calls>>

\* test: self.env.close(), return to the caller
TestClose ==
    /\ pc = "test_close"
    /\ env_closed' = env_closed + 1
    /\ pc' = IF frame_idx = 0 THEN "idle" ELSE "done"
    /\ UNCHANGED <<bufVars, bufCfg, sampleVars, len_ret, raised, stored, n_store,
                   op, epsilon, agentCfg, netVars, transition, is_test,
                   trainLocals, sync_log, grad_cnt, decay_cnt, synced_params,
                   projVars, envVars, n_calls>>

\* update_model() called by the caller itself: samples =
\* self.memory.sample_batch(); an exception of sample_batch is not caught
\* and ends the call
CallUpdateModel ==
    /\ pc \in {"idle", "done"}
    /\ n_calls < MaxCalls
    /\ n_calls' = n_calls + 1
    /\ sample_batch
    /\ pc' = IF raised' = "none"
             THEN (IF pc = "idle" THEN "call_loss_idle" ELSE "call_loss_done")
             ELSE "raised"
    /\ UNCHANGED <<bufVars, bufCfg, len_ret, stored, n_store, epsilon, agentCfg,
                   netVars, transition, is_test, trainLocals, histVars, projVars,
                   envVars>>

\* update_model() of the caller, rest: loss, optimizer.step(), return
CallUpdateModelStep ==
    /\ pc \in {"call_loss_idle", "call_loss_done"}
    /\ dqn' = OptimizerStep(dqn)[1]
    /\ dqn_target' = OptimizerStep(dqn)[2]
    /\ grad_cnt' = grad_cnt + 1
    /\ idxs' = <<>>
    /\ samples' = <<>>
    /\ pc' = IF pc = "call_loss_idle" THEN "idle" ELSE "done"
    /\ UNCHANGED <<bufVars, bufCfg, len_ret, raised, stored, n_store, op, epsilon,
                   agentCfg, transition, is_test, trainLocals,
                   sync_log, decay_cnt, synced_params, env_closed, projVars,
                   envVars, n_calls>>

\* one agent, DQNAgent(env, memory_size = 2, batch_size = 2, target_update = 1,
\* epsilon_decay = 1/DecayDen, max_epsilon = 1, min_epsilon = 1/EpsDen)
CallerInit ==
    /\ ReplayBufferInit(2, 2)
    /\ DQNAgentInit(1, 1, EpsDen * DecayDen, DecayDen)
    /\ CategoricalInit(0, 200, 51, GammaDen)

CallerNext ==
    \/ Next
    \/ TestBegin
    \/ TestSelectAction
    \/ TestStep
    \/ TestClose
    \/ CallUpdateModel
    \/ CallUpdateModelStep

CallerSpec == CallerInit /\ [][CallerNext]_vars

\* --------------------------------------------- ReplayBuffer on its own
agentVars == <<epsilon, agentCfg, netVars, transition, is_test, pc,
               trainLocals, histVars, projVars, envVars, n_calls>>

BufStore ==
    /\ n_store < MaxStores
    /\ \E t \in BufInputs :
         /\ store(t[1], t[2], t[3], t[4], t[5])
         /\ stored' = Append(stored, <<t[1], t[2], t[3], t[4],
                                       Float32OfBool(t[5])>>)
    /\ UNCHANGED <<bufCfg, sampleVars, len_ret, raised, agentVars>>

BufSampleBatch ==
    /\ sample_batch
    /\ UNCHANGED <<bufVars, bufCfg, len_ret, stored, n_store, agentVars>>

BufLen ==
    /\ len
    /\ UNCHANGED <<bufVars, bufCfg, sampleVars, raised, stored, n_store,
                   agentVars>>

BufInit ==
    /\ \E sz \in 1..MaxMem, bs \in 1..MaxBatch : ReplayBufferInit(sz, bs)
    /\ DQNAgentInit(1, 0, EpsOne, 0)
    /\ CategoricalInit(0, 200, 51, GammaDen)

BufNext == BufStore \/ BufSampleBatch \/ BufLen

BufSpec == BufInit /\ [][BufNext]_vars

\* ------------------------------------- _compute_dqn_loss: the projection
\* Values are integers in units of 1/GammaDen, probabilities integers in
\* units of 1/PDen, entries of proj_dist integers in units of 1/(PDen*BDen).
Atoms == 0..(atom_size - 1)
Rows == 0..(batch_size - 1)

\* delta_z = float(self.v_max - self.v_min) / (self.atom_size - 1)
delta_z == (v_max - v_min) \div (atom_size - 1)

\* self.support = torch.linspace(self.v_min, self.v_max, self.atom_size)
support(i) == v_min + i * delta_z

Clamp(x, lo, hi) == IF x < lo THEN lo ELSE IF x > hi THEN hi ELSE x

\* reward + (1 - done) * self.gamma * self.support, before the clamp
TzRaw(r, i) ==
    GammaDen * batch_reward[r + 1]
      + (1 - batch_done[r + 1]) * gamma * support(i)

\* t_z = t_z.clamp(min=self.v_min, max=self.v_max)
t_z(r, i) == Clamp(TzRaw(r, i), GammaDen * v_min, GammaDen * v_max)

\* b = (t_z - self.v_min) / delta_z is the fraction BNum / BDen
BDen == GammaDen * delta_z
BNum(r, i) == t_z(r, i) - GammaDen * v_min

\* l = b.floor().long()
l(r, i) == BNum(r, i) \div BDen
\* u = b.ceil().long()
u(r, i) == -((-BNum(r, i)) \div BDen)

offset_overlapping(r) == r * (atom_size - 1)
\* offset: torch.linspace(0, (batch_size - 1) * atom_size, batch_size).long()
offset(r) ==
    IF batch_size = 1 THEN 0
    ELSE r * (((batch_size - 1) * atom_size) \div (batch_size - 1))

UpperMassLowerWeight(r, i) == next_dist[r + 1][i] * (u(r, i) * BDen - BNum(r, i))
\* next_dist * (u.float() - b) and next_dist * (b - l.float()), times BDen
LowerMass(r, i) == next_dist[r + 1][i] * (u(r, i) * BDen - BNum(r, i))
UpperMass(r, i) == next_dist[r + 1][i] * (BNum(r, i) - l(r, i) * BDen)

\* sum of f(k) over k in 0..n
RECURSIVE SumTo(_, _)
SumTo(f(_), n) == IF n < 0 THEN 0 ELSE f(n) + SumTo(f, n - 1)

\* the two index_add_ calls on proj_dist.view(-1): entry k of the flattened
\* projection receives every source term whose index equals k
IndexAdd(k) ==
    LET FlatLen == batch_size * atom_size
        Lower(s) == IF l(s \div atom_size, s % atom_size)
                         + offset(s \div atom_size) = k
                    THEN LowerMass(s \div atom_size, s % atom_size) ELSE 0
        Upper(s) == IF u(s \div atom_size, s % atom_size)
                         + offset(s \div atom_size) = k
                    THEN UpperMass(s \div atom_size, s % atom_size) ELSE 0
    IN  SumTo(Lower, FlatLen - 1) + SumTo(Upper, FlatLen - 1)

\* _compute_dqn_loss, the torch.no_grad() block
ComputeDqnLoss ==
    /\ proj_dist = <<>>
    /\ proj_dist' = [k \in 0..(batch_size * atom_size - 1) |-> IndexAdd(k)]
    /\ UNCHANGED <<bufVars, bufCfg, sampleVars, len_ret, raised, stored, n_store,
                   op, epsilon, agentCfg, netVars, transition, is_test, pc,
                   trainLocals, histVars, v_min, v_max, atom_size, gamma,
                   batch_reward, batch_done, next_dist, envVars, n_calls>>

\* proj_dist[r, j]
Proj(r, j) == proj_dist[r * atom_size + j]

\* distributions over n atoms on the probability grid
RECURSIVE Compositions(_, _)
Compositions(n, total) ==
    IF n = 1 THEN {<<total>>}
    ELSE UNION {{<<k>> \o c : c \in Compositions(n - 1, total - k)} :
                k \in 0..total}
Dists(n) == {[i \in 0..(n - 1) |-> c[i + 1]] : c \in Compositions(n, PDen)}
PointMass(n, a) == [i \in 0..(n - 1) |-> IF i = a THEN PDen ELSE 0]

\* (v_min, v_max, atom_size) of the agents whose projection is explored
SmallConfigs == {<<0, 2, 3>>, <<-2, 2, 3>>, <<1, 2, 2>>}
DefaultConfig == <<0, 200, 51>>
DefaultMassAtoms == {0, 10, 50}
ProjRewards == {-1, 0, 1, 4, 300}
\* rewards of the batches of two rows
PairRewards == {0, 1}

ProjInit ==
    /\ DQNAgentInitNoBatch(1, 0, EpsOne, 0)
    /\ \E g \in 0..GammaDen :
         \/ \E c \in SmallConfigs, bs \in {1, 2} :
              /\ ReplayBufferInit(1, bs)
              /\ CategoricalInit(c[1], c[2], c[3], g)
              /\ next_dist \in [1..bs -> Dists(c[3])]
         \/ /\ ReplayBufferInit(1, 1)
            /\ CategoricalInit(DefaultConfig[1], DefaultConfig[2],
                               DefaultConfig[3], g)
            /\ \E a \in DefaultMassAtoms :
                 next_dist = <<PointMass(DefaultConfig[3], a)>>
    /\ batch_reward \in [1..batch_size ->
                            IF batch_size = 1 THEN ProjRewards ELSE PairRewards]
    /\ batch_done \in [1..batch_size -> {0, 1}]
    /\ proj_dist = <<>>

ProjNext == ComputeDqnLoss

ProjSpec == ProjInit /\ [][ProjNext]_vars

\* ================================================================ claims
computed == proj_dist # <<>>
Abs(x) == IF x < 0 THEN -x ELSE x
RowMass(r) == LET P(i) == next_dist[r + 1][i] IN SumTo(P, atom_size - 1)
ProjRowSum(r) == LET Q(j) == Proj(r, j) IN SumTo(Q, atom_size - 1)
\* probability 1 in the units of proj_dist
ProjOne == PDen * BDen

\* C1: every row of proj_dist sums to 1 within 1e-5 when the row of
\* next_dist it is projected from sums to 1
C1_RowsSumToOne ==
    computed =>
      \A r \in Rows :
        RowMass(r) = PDen =>
          Abs(ProjRowSum(r) - ProjOne) * 100000 <= ProjOne

\* C2: a source atom whose fractional index b is an integer leaves its
\* whole mass at bin b; with v_min=0, v_max=200, 51 atoms, reward 4, gamma 1,
\* done False and all mass on atom 10, all mass ends on atom 11 and none on
\* atoms 10 and 12
C2_IntegerIndexKeepsMass ==
    computed =>
      /\ \A r \in Rows : \A i \in Atoms :
           BNum(r, i) % BDen = 0 =>
             LET M(k) == IF BNum(r, k) = BNum(r, i)
                         THEN next_dist[r + 1][k] * BDen ELSE 0
             IN  Proj(r, l(r, i)) >= SumTo(M, atom_size - 1)
      /\ ( /\ <<v_min, v_max, atom_size>> = DefaultConfig
           /\ gamma = GammaDen
           /\ batch_reward[1] = 4
           /\ batch_done[1] = 0
           /\ next_dist[1] = PointMass(atom_size, 10) )
         => /\ Proj(0, 11) = ProjOne
            /\ Proj(0, 10) = 0
            /\ Proj(0, 12) = 0

\* C3: a source atom whose unclamped target lies above v_max (below v_min)
\* has t_z = v_max (v_min) and its whole mass lands on the last atom (atom 0)
\* of its row
C3_ClampedMassOnBoundary ==
    computed =>
      \A r \in Rows :
        LET Above(i) == TzRaw(r, i) > GammaDen * v_max
            Below(i) == TzRaw(r, i) < GammaDen * v_min
            MA(i) == IF Above(i) THEN next_dist[r + 1][i] * BDen ELSE 0
            MB(i) == IF Below(i) THEN next_dist[r + 1][i] * BDen ELSE 0
        IN  /\ \A i \in Atoms : Above(i) => t_z(r, i) = GammaDen * v_max
            /\ \A i \in Atoms : Below(i) => t_z(r, i) = GammaDen * v_min
            /\ Proj(r, atom_size - 1) >= SumTo(MA, atom_size - 1)
            /\ Proj(r, 0) >= SumTo(MB, atom_size - 1)

\* C4: after more than capacity stores on a fresh buffer, len() is the
\* capacity and the slots hold exactly the capacity most recent transitions,
\* the k-th store (0-indexed) in slot k mod capacity
C4_FifoEviction ==
    n_store > max_size =>
      /\ size = max_size
      /\ \A k \in (n_store - max_size)..(n_store - 1) :
           Slot(k % max_size) = stored[k + 1]
      /\ {Slot(i) : i \in Slots}
           = {stored[k + 1] : k \in (n_store - max_size)..(n_store - 1)}

C4_Witness ==
    /\ op = "store"
    /\ max_size >= 2
    /\ n_store >= max_size + 2

\* C5: a sample_batch call made with size >= batch_size returns batch_size
\* transitions from pairwise distinct indices below size, the five arrays
\* taken at the same indices in the same order
C5_SampleDistinctInRange ==
    (op = "sample_batch" /\ size >= batch_size) =>
      /\ raised = "none"
      /\ DOMAIN idxs = 1..batch_size
      /\ \A i, j \in 1..batch_size : i # j => idxs[i] # idxs[j]
      /\ \A i \in 1..batch_size : idxs[i] >= 0 /\ idxs[i] < size
      /\ \A i \in 1..batch_size :
           <<samples.obs[i], samples.acts[i], samples.rews[i],
             samples.next_obs[i], samples.done[i]>> = Slot(idxs[i])
      /\ \A f \in {"obs", "acts", "rews", "next_obs", "done"} :
           DOMAIN samples[f] = 1..batch_size

C5_Witness ==
    /\ op = "sample_batch"
    /\ batch_size >= 2
    /\ size >= batch_size
    /\ idxs # <<>>
    /\ idxs[1] > idxs[2]

\* C10: store writes its five arguments into the slot at the old ptr, moves
\* ptr to (ptr + 1) mod capacity, sets size to min(size + 1, capacity),
\* leaves every other slot alone, and can always be called, also on a full
\* buffer
C10_StoreEffect ==
    /\ [][n_store' # n_store =>
            /\ <<obs_buf'[ptr], acts_buf'[ptr], rews_buf'[ptr],
                 next_obs_buf'[ptr], done_buf'[ptr]>> = stored'[n_store']
            /\ ptr' = (ptr + 1) % max_size
            /\ size' = (IF size + 1 < max_size THEN size + 1 ELSE max_size)
            /\ \A j \in Slots \ {ptr} :
                 <<obs_buf'[j], acts_buf'[j], rews_buf'[j], next_obs_buf'[j],
                   done_buf'[j]>> = Slot(j)
            /\ raised' = raised]_vars
    /\ [](n_store < MaxStores => ENABLED BufStore)

C10_Witness ==
    /\ op = "store"
    /\ max_size >= 2
    /\ n_store = max_size + 1
    /\ size = max_size

\* C6: an iteration of train updates the model iff len(memory) >= batch_size
\* after its store; sample_batch is never called with fewer transitions, and
\* while size < batch_size epsilon, update_cnt and both networks stay as
\* they are
C6_UpdateOnlyWhenReady ==
    /\ [](pc \in {"update", "loss", "decay", "sync"} => size >= batch_size)
    /\ [](pc # "raised" /\ raised = "none")
    /\ [][pc = "episode" => (pc' = "update" <=> size >= batch_size)]_vars
    /\ [][(pc = "update" => pc' = "loss") /\ (pc = "loss" => pc' = "decay")]_vars
    /\ [][size' < batch_size =>
            UNCHANGED <<epsilon, update_cnt, grad_cnt, dqn, dqn_target>>]_vars

C6_Witness ==
    /\ pc = "decay"
    /\ batch_size >= 2
    /\ frame_idx = batch_size
    /\ update_cnt = 1

\* C7: with min_epsilon <= max_epsilon and epsilon_decay >= 0, epsilon stays
\* in [min_epsilon, max_epsilon], never increases, every update sets it to
\* max(min_epsilon, epsilon - (max_epsilon - min_epsilon) * epsilon_decay),
\* and once at min_epsilon it stays there
ValidEpsilonConfig == min_epsilon <= max_epsilon /\ epsilon_decay >= 0

C7_EpsilonSchedule ==
    /\ [](ValidEpsilonConfig => (min_epsilon <= epsilon /\ epsilon <= max_epsilon))
    /\ [][ValidEpsilonConfig =>
            /\ epsilon' <= epsilon
            /\ epsilon = min_epsilon => epsilon' = min_epsilon
            /\ decay_cnt' # decay_cnt =>
                 LET lowered == epsilon - ((max_epsilon - min_epsilon)
                                            * epsilon_decay) \div DecayDen
                 IN  epsilon' = (IF lowered > min_epsilon THEN lowered
                                 ELSE min_epsilon)]_vars

C7_Witness ==
    /\ min_epsilon < max_epsilon
    /\ epsilon_decay > 0
    /\ epsilon_decay < DecayDen
    /\ epsilon = min_epsilon
    /\ decay_cnt >= 3

\* C8: the target network is hard-synced exactly at the updates whose count
\* update_cnt is a positive multiple of target_update, after the gradient
\* step and the epsilon decay of that update; frames without an update do
\* not advance the count
C8_SyncCadence ==
    /\ Len(sync_log)
         = (IF pc \in {"decay", "sync"} THEN update_cnt - 1 ELSE update_cnt)
             \div target_update
    /\ \A j \in 1..Len(sync_log) :
         /\ sync_log[j].cnt = j * target_update
         /\ sync_log[j].grads = sync_log[j].cnt
         /\ sync_log[j].decays = sync_log[j].cnt
    /\ update_cnt = grad_cnt
    /\ (max_size < batch_size \/ n_store < batch_size) => update_cnt = 0

C8_Witness ==
    /\ target_update >= 2
    /\ batch_size >= 2
    /\ Len(sync_log) >= 2
    /\ pc = "done"

\* C9: the target parameters are always the online parameters of the most
\* recent hard sync (of construction before the first one): a hard sync
\* makes target equal to online, so both give the same action values, and a
\* gradient step leaves the target alone
C9_TargetIsLastSync ==
    /\ [](dqn_target = synced_params)
    /\ [][Len(sync_log') # Len(sync_log) =>
            /\ dqn_target' = dqn'
            /\ dqn' = dqn
            /\ \A o \in Obs : Greedy(dqn_target', o) = Greedy(dqn', o)]_vars
    /\ [][grad_cnt' # grad_cnt => dqn_target' = dqn_target]_vars

C9_Witness ==
    /\ Len(sync_log) >= 1
    /\ dqn_target # 0
    /\ dqn # dqn_target

\* C11: in every state reached by any interleaving of store, sample_batch
\* and len, 0 <= size <= capacity and 0 <= ptr < capacity; ptr is the number
\* of stores so far modulo the capacity, and equals size while the buffer is
\* not full; size never decreases: a store raises it by one until it reaches
\* the capacity and leaves it alone afterwards, sample_batch and len change
\* neither size nor ptr
C11_BufferInvariants ==
    /\ [](/\ 0 <= size /\ size <= max_size
          /\ 0 <= ptr /\ ptr < max_size
          /\ ptr = n_store % max_size
          /\ (size < max_size => ptr = size)
          /\ size = Min(n_store, max_size))
    /\ [][/\ size' >= size
          /\ n_store' # n_store =>
                size' = IF size < max_size THEN size + 1 ELSE max_size
          /\ n_store' = n_store => (size' = size /\ ptr' = ptr)]_vars

C11_Witness ==
    /\ max_size >= 2
    /\ n_store = max_size + 1
    /\ size = max_size
    /\ ptr = 1
    /\ op = "sample_batch"
    /\ raised = "none"

\* C12 (as written): sample_batch called through update_model while
\* size < batch_size fails with an InsufficientDataError that reaches the
\* caller
C12_InsufficientDataError ==
    (op = "sample_batch" /\ size < batch_size) =>
        (raised = "InsufficientDataError" /\ pc = "raised")

\* C12 (amended): sample_batch called while size < batch_size returns no
\* batch, short or duplicated, but fails with the ValueError of
\* np.random.choice; update_model does not catch it, so it reaches the caller
\* and no gradient step is taken; the failed call leaves the buffer's slots,
\* ptr and size as they were
C12_SampleTooEarlyRaises ==
    /\ []((op = "sample_batch" /\ size < batch_size) =>
            (raised = "ValueError" /\ pc = "raised"))
    /\ [](raised # "none" => (pc = "raised" /\ size < batch_size))
    /\ [][raised' # raised =>
            UNCHANGED <<bufVars, n_store, idxs, samples, dqn, dqn_target,
                        grad_cnt, update_cnt>>]_vars
    /\ [][pc = "raised" => pc' = "raised"]_vars

C12_Witness ==
    /\ pc = "raised"
    /\ raised = "ValueError"
    /\ op = "sample_batch"
    /\ size = 1
    /\ batch_size = 2
    /\ Slot(0) # <<0, 0, 0, 0, 0>>
    /\ idxs = <<>>

\* C13: in test mode (is_test = TRUE) select_action and step, and so every
\* step of a test() episode, leave the replay buffer (slots, ptr, size) and
\* the pending transition unchanged: transitions are recorded and stored in
\* train mode only. The mode flag changes only on entry to train() (to
\* FALSE) and to test() (to TRUE), never inside an episode
C13_TestModeKeepsBuffer ==
    /\ [][is_test' => UNCHANGED <<bufVars, n_store, transition>>]_vars
    /\ [][(transition' # transition \/ n_store' # n_store
             \/ bufVars' # bufVars) => (~is_test /\ ~is_test')]_vars
    /\ [][is_test' # is_test =>
            /\ pc \in {"idle", "done"}
            /\ pc' \in {"select", "close", "test_select"}
            /\ is_test' = (pc' = "test_select")]_vars
    /\ [](pc \in {"test_select", "test_step", "test_close"} => is_test)
    /\ [](pc \in {"select", "step", "episode", "update", "loss", "decay",
                  "sync", "plot", "close"} => ~is_test)

C13_Witness ==
    /\ is_test
    /\ pc = "test_close"
    /\ n_store >= 2
    /\ size = 2
    /\ Len(transition) = 5
    /\ env_steps >= n_store + 2

\* C14: an agent constructed with atom_size < 2, v_min >= v_max or
\* batch_size > memory_size is rejected at construction, so no such agent
\* ever enters the training loop
C14_BadConfigNeverTrains ==
    (atom_size < 2 \/ v_min >= v_max \/ batch_size > max_size) =>
        (/\ pc \notin {"select", "step", "episode", "update", "loss", "decay",
                       "sync", "plot"}
         /\ n_store = 0)

\* what the source atoms of row r alone put on atom j of the projection
RowContribution(r, j) ==
    LET Lower(i) == IF l(r, i) = j THEN LowerMass(r, i) ELSE 0
        Upper(i) == IF u(r, i) = j THEN UpperMass(r, i) ELSE 0
    IN  SumTo(Lower, atom_size - 1) + SumTo(Upper, atom_size - 1)

\* C15: for every batch row r and source atom i the flattened destination
\* indices l + offset and u + offset lie in [r*atom_size, (r+1)*atom_size),
\* with offset exactly r*atom_size: the mass of row r is added to row r of
\* proj_dist only, never to another row and never out of bounds
C15_RowsStayApart ==
    computed =>
      \A r \in Rows :
        /\ offset(r) = r * atom_size
        /\ \A i \in Atoms :
             /\ r * atom_size <= l(r, i) + offset(r)
             /\ l(r, i) + offset(r) < (r + 1) * atom_size
             /\ r * atom_size <= u(r, i) + offset(r)
             /\ u(r, i) + offset(r) < (r + 1) * atom_size
             /\ l(r, i) + offset(r) \in DOMAIN proj_dist
             /\ u(r, i) + offset(r) \in DOMAIN proj_dist
        /\ \A j \in Atoms : Proj(r, j) = RowContribution(r, j)

C15_Witness ==
    /\ computed
    /\ batch_size = 2
    /\ next_dist[1] # next_dist[2]
    /\ \E i \in Atoms : u(0, i) = atom_size - 1 /\ UpperMass(0, i) > 0
    /\ \E k \in Atoms : l(1, k) = 0 /\ LowerMass(1, k) > 0

\* C16: in train, select_action and step strictly alternate; every store
\* gets exactly the five fields (s, a, r, s', done) where s is the
\* observation a was selected from and r, s', done are the environment's
\* answer to a. When done is true the stored s' is the terminal observation
\* and the next action is selected from the observation of env.reset(),
\* never from the terminal one: no stored transition spans two episodes
C16_TransitionsWithinEpisode ==
    /\ [](pc = "select" => (state = env_obs /\ ~env_done))
    /\ [](pc = "step" =>
            (transition = <<state, action>> /\ state = env_obs /\ ~env_done))
    /\ [](pc = "episode" =>
            /\ transition = <<state, action, reward, next_state, done>>
            /\ next_state = env_obs
            /\ done = env_done
            /\ Slot((ptr + max_size - 1) % max_size)
                 = <<state, action, reward, next_state, Float32OfBool(done)>>)
    /\ [](env_steps = n_store)
    /\ [][n_store' # n_store =>
            /\ pc = "step" /\ pc' = "episode"
            /\ n_store' = n_store + 1
            /\ Len(transition') = 5
            /\ transition'[1] = transition[1]
            /\ transition'[2] = transition[2]]_vars
    /\ [][pc' = "step" => pc \in {"select", "step"}]_vars
    /\ [][(pc' = "select" /\ pc # "select") => pc \in {"idle", "plot"}]_vars
    /\ [][(pc = "step" /\ pc' # "step") => pc' = "episode"]_vars
    /\ [][(pc = "episode" /\ pc' # "episode") =>
            IF done THEN ~env_done' /\ state' = env_obs' /\ env_steps' = env_steps
                    ELSE state' = next_state /\ UNCHANGED envVars]_vars

C16_Witness ==
    /\ pc = "episode"
    /\ n_store >= 3
    /\ max_size = 2
    /\ ~done
    /\ done_buf[ptr] = 1
    /\ next_obs_buf[ptr] # state
    /\ transition = <<state, action, reward, next_state, done>>

\* b of source atom i of row r is not an integer
NonInteger(r, i) == BNum(r, i) % BDen # 0
\* the weights (u - b) and (b - l), times BDen
WeightAtL(r, i) == u(r, i) * BDen - BNum(r, i)
WeightAtU(r, i) == BNum(r, i) - l(r, i) * BDen
\* what the source atoms of row r with a non-integer b are due to put on
\* atom j
NonIntegerShare(r, j) ==
    LET Lower(i) == IF NonInteger(r, i) /\ l(r, i) = j
                    THEN next_dist[r + 1][i] * WeightAtL(r, i) ELSE 0
        Upper(i) == IF NonInteger(r, i) /\ u(r, i) = j
                    THEN next_dist[r + 1][i] * WeightAtU(r, i) ELSE 0
    IN  SumTo(Lower, atom_size - 1) + SumTo(Upper, atom_size - 1)

\* C17: for every source atom i whose b is not an integer,
\* 0 <= l < u = l + 1 <= atom_size - 1, the weights (u - b) and (b - l) are
\* both positive and sum to 1, exactly p*(u - b) is added at l and p*(b - l)
\* at u, so the atom's mass is neither lost nor duplicated; contributions of
\* different source atoms to the same bin add up
C17_NonIntegerSplit ==
    computed =>
      \A r \in Rows :
        /\ \A i \in Atoms : NonInteger(r, i) =>
             /\ 0 <= l(r, i)
             /\ l(r, i) < u(r, i)
             /\ u(r, i) = l(r, i) + 1
             /\ u(r, i) <= atom_size - 1
             /\ WeightAtL(r, i) > 0
             /\ WeightAtU(r, i) > 0
             /\ WeightAtL(r, i) + WeightAtU(r, i) = BDen
             /\ LowerMass(r, i) = next_dist[r + 1][i] * WeightAtL(r, i)
             /\ UpperMass(r, i) = next_dist[r + 1][i] * WeightAtU(r, i)
             /\ LowerMass(r, i) + UpperMass(r, i) = next_dist[r + 1][i] * BDen
        /\ \A j \in Atoms : Proj(r, j) >= NonIntegerShare(r, j)
        /\ (\A i \in Atoms : next_dist[r + 1][i] > 0 => NonInteger(r, i)) =>
             /\ \A j \in Atoms : Proj(r, j) = NonIntegerShare(r, j)
             /\ ProjRowSum(r) = RowMass(r) * BDen

C17_Witness ==
    /\ computed
    /\ \E r \in Rows :
         /\ \A i \in Atoms : next_dist[r + 1][i] > 0 => NonInteger(r, i)
         /\ \E i, k \in Atoms :
              /\ i # k
              /\ next_dist[r + 1][i] > 0
              /\ next_dist[r + 1][k] > 0
              /\ u(r, i) = l(r, k)
              /\ Proj(r, l(r, k)) = UpperMass(r, i) + LowerMass(r, k)
              /\ ProjRowSum(r) = ProjOne

\* C18: train(num_frames) terminates (every environment call returning):
\* it makes exactly num_frames environment steps and num_frames stores,
\* however many episodes end on the way, at most one model update per step,
\* and closes the environment exactly once, after the last step
C18_TrainTerminates ==
    /\ <>(pc = "done")
    /\ [](pc = "done" =>
            /\ env_steps = num_frames
            /\ n_store = num_frames
            /\ update_cnt <= num_frames
            /\ env_closed = 1)
    /\ [](grad_cnt <= env_steps /\ grad_cnt = update_cnt)
    /\ [](env_steps <= num_frames /\ n_store = env_steps)
    /\ [](env_closed = IF pc = "done" THEN 1 ELSE 0)
    /\ [][env_closed' # env_closed =>
            /\ env_closed' = env_closed + 1
            /\ env_steps = num_frames
            /\ env_steps' = env_steps]_vars
    /\ [][grad_cnt' # grad_cnt =>
            (grad_cnt' = grad_cnt + 1 /\ grad_cnt < env_steps)]_vars
    /\ [][pc = "done" => UNCHANGED vars]_vars

C18_Witness ==
    /\ pc = "done"
    /\ num_frames = MaxFrames
    /\ env_steps = MaxFrames
    /\ n_store = MaxFrames
    /\ env_closed = 1
    /\ done
    /\ done_buf[ptr] = 1
    /\ update_cnt >= 1
    /\ update_cnt < num_frames

====
